---- MODULE Spec2Model ----
(***************************************************************************)
(* Model of business_card.py: the three contact fragments (Name, Email,    *)
(* Phone) with their regular expressions, detect and parse, and the        *)
(* line scan of ContactInfo.__init__ behind                                *)
(* BusinessCardParser.getContactInfo.                                      *)
(*                                                                         *)
(* A text is a sequence of one-character strings.  Python's None is the    *)
(* one-element sequence None below, which no text equals because every     *)
(* element of a text is a single character.                                *)
(***************************************************************************)
EXTENDS Integers, Sequences, FiniteSets

VARIABLES
    lines,        \* ContactInfo.lines: the document's lines, line terminator cut
    li,           \* position of the outer loop "for line in self.lines"
    fi,           \* position of the inner loop "for fragment in self.fragments"
    pc,           \* "idle" | "loop" | "returned" | "raised"
    match,        \* datatype -> the fragment instance's self.match
    data,         \* datatype -> the fragment instance's self.data
    parsed_data,  \* ContactInfo.parsed_data
    detected,     \* history: datatypes whose detect was truthy in this scan
    first,        \* history: document and record of the first finished scan
    call          \* history: the last detect/parse call made on a fragment

vars == <<lines, li, fi, pc, match, data, parsed_data, detected, first, call>>

None == <<"None">>

\* ------------------------------------------------------------------------
\* Characters and the classes \w, \s, \d of Python's re module
\* ------------------------------------------------------------------------
Digit == {"0", "1", "2", "3", "4", "5", "6", "7", "8", "9"}

Lower == {"a", "b", "c", "d", "e", "f", "g", "h", "i", "j", "k", "l", "m",
          "n", "o", "p", "q", "r", "s", "t", "u", "v", "w", "x", "y", "z"}

Upper == {"A", "B", "C", "D", "E", "F", "G", "H", "I", "J", "K", "L", "M",
          "N", "O", "P", "Q", "R", "S", "T", "U", "V", "W", "X", "Y", "Z"}

Word == Lower \cup Upper \cup Digit \cup {"_"}

Space == {" ", "\t", "\n", "\r"}

ClassChars(c) ==
    CASE c = "w" -> Word
      [] c = "s" -> Space
      [] c = "d" -> Digit

\* ------------------------------------------------------------------------
\* Regular expressions as syntax trees; max = -1 is "no upper limit"
\* ------------------------------------------------------------------------
Cls(c)         == [t |-> "cls", c |-> c]
Lit(c)         == [t |-> "lit", c |-> c]
Bol            == [t |-> "bol"]
Eol            == [t |-> "eol"]
Cat(xs)        == [t |-> "cat", xs |-> xs]
Grp(id, x)     == [t |-> "grp", id |-> id, x |-> x]
Rep(x, lo, hi) == [t |-> "rep", x |-> x, min |-> lo, max |-> hi]
Opt(x)         == Rep(x, 0, 1)
Star(x)        == Rep(x, 0, -1)
Plus(x)        == Rep(x, 1, -1)

GroupIds == {"1", "2", "3", "prefix", "domain", "suffix", "country_code", "area_code"}

NoSpan == <<-1, -1>>

NoSpans == [g \in GroupIds |-> NoSpan]

\* The backtracking matcher: every way `node` matches s from offset i (the
\* number of characters already consumed), as a sequence of
\* [pos, caps] in the order the backtracking engine tries them (greedy
\* repetitions first try one more iteration).
RECURSIVE MatchNode(_, _, _, _)
RECURSIVE MatchCat(_, _, _, _, _)
RECURSIVE MatchCatEach(_, _, _, _, _)
RECURSIVE MatchRep(_, _, _, _, _)
RECURSIVE MatchRepEach(_, _, _, _, _, _)
RECURSIVE CloseGroup(_, _, _, _)

CloseGroup(id, i, rs, k) ==
    IF k > Len(rs) THEN <<>>
    ELSE <<[pos |-> rs[k].pos,
            caps |-> [rs[k].caps EXCEPT ![id] = <<i, rs[k].pos>>]]>>
         \o CloseGroup(id, i, rs, k + 1)

MatchNode(node, s, i, caps) ==
    CASE node.t = "cls" ->
            IF i < Len(s) /\ s[i + 1] \in ClassChars(node.c)
            THEN <<[pos |-> i + 1, caps |-> caps]>> ELSE <<>>
      [] node.t = "lit" ->
            IF i < Len(s) /\ s[i + 1] = node.c
            THEN <<[pos |-> i + 1, caps |-> caps]>> ELSE <<>>
      [] node.t = "bol" ->
            IF i = 0 THEN <<[pos |-> i, caps |-> caps]>> ELSE <<>>
      [] node.t = "eol" ->
            \* $ matches at the end and just before a newline that ends s
            IF i = Len(s) \/ (i = Len(s) - 1 /\ s[Len(s)] = "\n")
            THEN <<[pos |-> i, caps |-> caps]>> ELSE <<>>
      [] node.t = "cat" -> MatchCat(node.xs, 1, s, i, caps)
      [] node.t = "grp" -> CloseGroup(node.id, i, MatchNode(node.x, s, i, caps), 1)
      [] node.t = "rep" -> MatchRep(node, 0, s, i, caps)

MatchCatEach(xs, k, s, rs, j) ==
    IF j > Len(rs) THEN <<>>
    ELSE MatchCat(xs, k + 1, s, rs[j].pos, rs[j].caps)
         \o MatchCatEach(xs, k, s, rs, j + 1)

MatchCat(xs, k, s, i, caps) ==
    IF k > Len(xs) THEN <<[pos |-> i, caps |-> caps]>>
    ELSE MatchCatEach(xs, k, s, MatchNode(xs[k], s, i, caps), 1)

MatchRepEach(node, n, s, i, rs, j) ==
    IF j > Len(rs) THEN <<>>
    ELSE (IF rs[j].pos > i
          THEN MatchRep(node, n + 1, s, rs[j].pos, rs[j].caps) ELSE <<>>)
         \o MatchRepEach(node, n, s, i, rs, j + 1)

MatchRep(node, n, s, i, caps) ==
    (IF node.max = -1 \/ n < node.max
     THEN MatchRepEach(node, n, s, i, MatchNode(node.x, s, i, caps), 1)
     ELSE <<>>)
    \o (IF n >= node.min THEN <<[pos |-> i, caps |-> caps]>> ELSE <<>>)

\* A match object: the string it was made on and the span of every group.
NoMatch == [matched |-> FALSE, string |-> <<>>, spans |-> NoSpans]

\* re.match(pattern, string): the first way the pattern matches, or None.
ReMatch(pattern, string) ==
    LET rs == MatchNode(pattern, string, 0, NoSpans)
    IN  IF rs = <<>> THEN NoMatch
        ELSE [matched |-> TRUE, string |-> string, spans |-> rs[1].caps]

\* match.group(id): the text of the group, None if it took no part.
Group(m, id) ==
    IF m.spans[id] = NoSpan THEN None
    ELSE SubSeq(m.string, m.spans[id][1] + 1, m.spans[id][2])

\* ------------------------------------------------------------------------
\* str methods used by the fragments
\* ------------------------------------------------------------------------
RECURSIVE LStrip(_)
LStrip(s) == IF s # <<>> /\ Head(s) \in Space THEN LStrip(Tail(s)) ELSE s

RECURSIVE RStrip(_)
RStrip(s) ==
    IF s # <<>> /\ s[Len(s)] \in Space THEN RStrip(SubSeq(s, 1, Len(s) - 1)) ELSE s

\* str.strip()
Strip(s) == RStrip(LStrip(s))

\* str.replace(c, '')
RECURSIVE Remove(_, _)
Remove(s, c) ==
    IF s = <<>> THEN <<>>
    ELSE (IF Head(s) = c THEN <<>> ELSE <<Head(s)>>) \o Remove(Tail(s), c)

\* str.split(sep)[0]: the text before the first sep
RECURSIVE SplitFirst(_, _)
SplitFirst(s, sep) ==
    IF s = <<>> \/ Head(s) = sep THEN <<>>
    ELSE <<Head(s)>> \o SplitFirst(Tail(s), sep)

\* ------------------------------------------------------------------------
\* The fragments' patterns
\* ------------------------------------------------------------------------
W == Cls("w")
S == Cls("s")
D == Cls("d")

\* "^(\w+)\s+(\w+\.?)(\s+\w+)?$"
NamePattern ==
    Cat(<<Bol,
          Grp("1", Plus(W)),
          Plus(S),
          Grp("2", Cat(<<Plus(W), Opt(Lit("."))>>)),
          Opt(Grp("3", Cat(<<Plus(S), Plus(W)>>))),
          Eol>>)

\* "^(?P<prefix>\w+\.?\w+)@(?P<domain>\w+)\.(?P<suffix>\w+)$"
EmailPattern ==
    Cat(<<Bol,
          Grp("prefix", Cat(<<Plus(W), Opt(Lit(".")), Plus(W)>>)),
          Lit("@"),
          Grp("domain", Plus(W)),
          Lit("."),
          Grp("suffix", Plus(W)),
          Eol>>)

\* "^(\w*:?\s)?(?P<country_code>\+\d{1,3})?\s*\(?(?P<area_code>\d{3})\)?\s*-?
\*   (?P<prefix>\d{3})-?(?P<suffix>\d{4})$"
PhonePattern ==
    Cat(<<Bol,
          Opt(Grp("1", Cat(<<Star(W), Opt(Lit(":")), S>>))),
          Opt(Grp("country_code", Cat(<<Lit("+"), Rep(D, 1, 3)>>))),
          Star(S),
          Opt(Lit("(")),
          Grp("area_code", Rep(D, 3, 3)),
          Opt(Lit(")")),
          Star(S),
          Opt(Lit("-")),
          Grp("prefix", Rep(D, 3, 3)),
          Opt(Lit("-")),
          Grp("suffix", Rep(D, 4, 4)),
          Eol>>)

\* ------------------------------------------------------------------------
\* The fragments: Name, Email, Phone
\* ------------------------------------------------------------------------
Datatypes == {"name", "phone", "email"}

\* self.fragments = [Name(), Phone(), Email()]
Fragments == <<"name", "phone", "email">>

\* Name.common_names: the lines of names.txt
CommonNames == {<<"J", "i", "m">>, <<"M", "i", "k", "e">>}

\* "line.strip()" in each detect: str.strip returns a new string and the
\* statement drops it, so the line that is matched is the line as given.
StripStatement(line) == line

\* Mutant of NameDetect: the check against common_names is left out.
NameDetectAnyName(m, line) == ReMatch(NamePattern, StripStatement(line))

\* Name.detect: the new self.match, which is also what it returns
NameDetect(m, line) ==
    LET found == ReMatch(NamePattern, StripStatement(line))
    IN  IF found.matched /\ Group(found, "1") \notin CommonNames
        THEN NoMatch ELSE found

\* Email.detect
EmailDetect(m, line) == ReMatch(EmailPattern, StripStatement(line))

\* Phone.detect: "only store a new match"
PhoneDetect(m, line) ==
    IF ~m.matched THEN ReMatch(PhonePattern, StripStatement(line)) ELSE m

Detect(f, m, line) ==
    CASE f = "name"  -> NameDetect(m, line)
      [] f = "email" -> EmailDetect(m, line)
      [] f = "phone" -> PhoneDetect(m, line)

\* The outcome of a parse: the exception raised ("" if none), the value
\* returned and the new self.data.
Raised(exc, d) == [exc |-> exc, ret |-> None, data |-> d]
Returned(text) == [exc |-> "", ret |-> text, data |-> text]

\* Name.parse
NameParse(m, d) ==
    IF ~m.matched THEN Raised("ValueError", d)
    ELSE LET first_name  == Group(m, "1")
             middle_name == IF Group(m, "3") = None THEN None ELSE Group(m, "2")
             last_name   == IF Group(m, "3") = None THEN Group(m, "2")
                            ELSE Strip(Group(m, "3"))
         IN  IF middle_name # None /\ middle_name # <<>>
             THEN Returned(first_name \o <<" ">> \o middle_name \o <<" ">> \o last_name)
             ELSE Returned(first_name \o <<" ">> \o last_name)

\* Mutant of EmailParse: the format string has no period before the suffix.
EmailParseNoPeriod(m, d) ==
    IF ~m.matched THEN Raised("NameError", d)
    ELSE Returned(Group(m, "prefix") \o <<"@">> \o Group(m, "domain")
                  \o Group(m, "suffix"))

\* Email.parse: without a match the raise statement formats the unbound
\* name `datatype`, so what is raised is a NameError
EmailParse(m, d) ==
    IF ~m.matched THEN Raised("NameError", d)
    ELSE Returned(Group(m, "prefix") \o <<"@">> \o Group(m, "domain")
                  \o <<".">> \o Group(m, "suffix"))

\* Mutant of PhoneParse: the "+" of the country code is kept.
PhoneParseKeepsPlus(m, d) ==
    IF ~m.matched THEN Raised("ValueError", d)
    ELSE LET cc == Group(m, "country_code")
         IN  Returned((IF cc = None THEN <<>> ELSE cc) \o Group(m, "area_code")
                      \o Group(m, "prefix") \o Group(m, "suffix"))

\* Phone.parse
PhoneParse(m, d) ==
    IF ~m.matched THEN Raised("ValueError", d)
    ELSE LET cc == Group(m, "country_code")
             country_code == IF cc = None \/ cc = <<>> THEN <<>> ELSE Remove(cc, "+")
         IN  Returned(country_code \o Group(m, "area_code")
                      \o Group(m, "prefix") \o Group(m, "suffix"))

Parse(f, m, d) ==
    CASE f = "name"  -> NameParse(m, d)
      [] f = "email" -> EmailParse(m, d)
      [] f = "phone" -> PhoneParse(m, d)

\* Name(), Phone(), Email(): self.match = None, self.data = None
NewMatch == [f \in Datatypes |-> NoMatch]
NewData  == [f \in Datatypes |-> None]

\* ------------------------------------------------------------------------
\* ContactInfo
\* ------------------------------------------------------------------------
\* Mutant of RegisterFragments: the fragment instances of the scan before
\* are used again.
ReuseFragments == match

\* "self.fragments = [Name(), Phone(), Email()]": every ContactInfo makes
\* its own three instances
RegisterFragments == NewMatch

\* "for line in fid.readlines(): self.lines.append(line.split("\n")[0])"
ReadLines(document) == [k \in 1..Len(document) |-> SplitFirst(document[k], "\n")]

\* Mutant of DefaultParsedData: the slots start as the empty text.
DefaultEmptyText == [f \in Datatypes |-> <<>>]

\* "init default values"
DefaultParsedData == [f \in Datatypes |-> None]

Accessor(key) == IF key \notin DOMAIN parsed_data THEN None ELSE parsed_data[key]

getName         == Accessor("name")
getPhoneNumber  == Accessor("phone")
getEmailAddress == Accessor("email")

\* A call on a fragment: the method, the instance (by datatype), the line
\* given, detect's truth value, what parse raised or returned, self.match
\* before the call, and whether the call before it on the instance was a
\* successful detect of the same line.
NoCall == [op |-> "none", frag |-> "none", line |-> <<>>, ok |-> FALSE,
           exc |-> "", ret |-> None, legal |-> FALSE, before |-> NoMatch]

\* BusinessCardParser.getContactInfo(document) up to the scan loop of
\* ContactInfo.__init__; it returns at once when the document has no lines.
GetContactInfo(document) ==
    /\ pc \in {"idle", "returned"}
    /\ lines' = ReadLines(document)
    /\ match' = RegisterFragments
    /\ data' = NewData
    /\ parsed_data' = DefaultParsedData
    /\ detected' = {}
    /\ IF ReadLines(document) = <<>>      \* "if not self.lines: return"
       THEN pc' = "returned" /\ li' = 0 /\ fi' = 0
       ELSE pc' = "loop" /\ li' = 1 /\ fi' = 1
    /\ UNCHANGED <<first, call>>

\* Mutant of Assign: the slot is written whether or not detect succeeded.
AssignAlways(pd, f, m, r) == [pd EXCEPT ![f] = r.ret]

\* "if fragment.detect(line): self.parsed_data[fragment.datatype] =
\* fragment.parse(line)": the slot is written only after a truthy detect,
\* and not at all when parse raises.
Assign(pd, f, m, r) ==
    IF m.matched /\ r.exc = "" THEN [pd EXCEPT ![f] = r.ret] ELSE pd

\* One pass of the inner loop body: "if fragment.detect(line):
\* self.parsed_data[fragment.datatype] = fragment.parse(line)"
ScanStep ==
    /\ pc = "loop"
    /\ LET f == Fragments[fi]
           m == Detect(f, match[f], lines[li])
           r == Parse(f, m, data[f])
       IN  /\ match' = [match EXCEPT ![f] = m]
           /\ parsed_data' = Assign(parsed_data, f, m, r)
           /\ IF ~m.matched
              THEN UNCHANGED <<data, detected>>
              ELSE /\ data' = [data EXCEPT ![f] = r.data]
                   /\ detected' = detected \cup {f}
           /\ IF m.matched /\ r.exc # ""
              THEN pc' = "raised" /\ UNCHANGED <<li, fi>>
              ELSE IF fi < Len(Fragments)
              THEN fi' = fi + 1 /\ UNCHANGED <<li, pc>>
              ELSE IF li < Len(lines)
              THEN li' = li + 1 /\ fi' = 1 /\ UNCHANGED pc
              ELSE pc' = "returned" /\ UNCHANGED <<li, fi>>
    /\ UNCHANGED <<lines, first, call>>

\* What the three accessors of the returned ContactInfo give
Record == [name |-> getName, phone |-> getPhoneNumber, email |-> getEmailAddress]

\* ------------------------------------------------------------------------
\* The scan of one document after another
\* ------------------------------------------------------------------------
MaxLines == 4

\* A line as readlines() gives it: the text and its terminator
Raw(text) == text \o <<"\n">>

MikeSmith   == <<"M", "i", "k", "e", " ", "S", "m", "i", "t", "h">>
Phone123    == <<"1", "2", "3", "-", "4", "5", "6", "-", "7", "8", "9", "8">>
Phone222    == <<"(", "2", "2", "2", ")", " ", "9", "9", "9", "-", "8", "8", "8", "8">>
BobAtCo     == <<"b", "o", "b", "@", "c", "o", "m", "p", "a", "n", "y", ".", "c", "o", "m">>
SuffixOnly  == <<"4", "5", "6", "-", "7", "8", "9", "8">>

ScanPool == {MikeSmith, Phone123, Phone222, BobAtCo, SuffixOnly}

\* The documents of at most n lines over the texts of pool
Documents(pool, n) ==
    UNION {[1..k -> {Raw(t) : t \in pool}] : k \in 0..n}

NoFirst == [kept |-> FALSE, lines |-> <<>>, record |-> DefaultParsedData,
            other |-> FALSE]

Init ==
    /\ pc = "idle"
    /\ lines = <<>>
    /\ li = 0
    /\ fi = 0
    /\ match = NewMatch
    /\ data = NewData
    /\ parsed_data = DefaultParsedData
    /\ detected = {}
    /\ first = NoFirst
    /\ call = NoCall

\* The first call of getContactInfo on the parser
Scan ==
    /\ pc = "idle"
    /\ \E document \in Documents(ScanPool, MaxLines) : GetContactInfo(document)

Next == Scan \/ ScanStep

Spec == Init /\ [][Next]_vars

\* A line matches a category's grammar when the detect of a new fragment of
\* that category accepts it; its normalization is what parse then returns.
GrammarMatch(f, line) == Detect(f, NoMatch, line).matched

Normalization(f, line) == Parse(f, Detect(f, NoMatch, line), None).ret

MatchingLines(f) == {k \in 1..Len(lines) : GrammarMatch(f, lines[k])}

LastMatching(f) == CHOOSE k \in MatchingLines(f) : \A j \in MatchingLines(f) : j <= k

\* C1: after a full scan every category holds the normalization of the LAST
\* line of the document that matches the category's grammar (None when no
\* line matches).
C1_LastMatchWins ==
    pc = "returned" =>
        \A f \in Datatypes :
            Accessor(f) = IF MatchingLines(f) = {} THEN None
                          ELSE Normalization(f, lines[LastMatching(f)])

ExactlyOneEach == \A f \in Datatypes : Cardinality(MatchingLines(f)) = 1

\* C3: when exactly one line of the document matches each category, the
\* scan returns for each category the normalization of that line, wherever
\* the lines that match nothing stand.
C3_OneMatchEach ==
    (pc = "returned" /\ ExactlyOneEach) =>
        \A f \in Datatypes : Accessor(f) = Normalization(f, lines[LastMatching(f)])

\* C3 witness: a finished scan with one line per category and a line that
\* matches nothing after the phone line.
C3_Witness ==
    /\ pc = "returned"
    /\ ExactlyOneEach
    /\ \E k \in 1..Len(lines) :
          /\ k > LastMatching("phone")
          /\ \A f \in Datatypes : ~GrammarMatch(f, lines[k])
    /\ Record = [name |-> MikeSmith, phone |-> <<"2", "2", "2", "9", "9", "9", "8", "8", "8", "8">>, email |-> BobAtCo]

\* C8: a scan raises nothing, and when it has returned every category for
\* which no detect succeeded reads as None; the empty document gives None
\* for all three.
C8_AbsentIsNone ==
    /\ pc # "raised"
    /\ pc = "returned" =>
          /\ \A f \in Datatypes \ detected : Accessor(f) = None
          /\ lines = <<>> => Record = [name |-> None, phone |-> None, email |-> None]

\* C8 witness: a finished scan of a document with lines in which only the
\* phone was detected.
C8_Witness ==
    /\ pc = "returned"
    /\ lines # <<>>
    /\ detected = {"phone"}
    /\ getName = None /\ getEmailAddress = None /\ getPhoneNumber # None

\* ------------------------------------------------------------------------
\* Several getContactInfo calls on one BusinessCardParser
\* ------------------------------------------------------------------------
MaxRepeatLines == 2

RepeatPool == {Phone123, Phone222, SuffixOnly}

\* Any call of getContactInfo, the first or a later one
Rescan ==
    \E document \in Documents(RepeatPool, MaxRepeatLines) : GetContactInfo(document)

\* The caller keeps the lines and the record of the first scan it looks at,
\* and notes when it later sees the scan of another document.
Observe ==
    /\ pc = "returned"
    /\ IF ~first.kept
       THEN first' = [kept |-> TRUE, lines |-> lines, record |-> Record,
                      other |-> FALSE]
       ELSE /\ lines # first.lines
            /\ ~first.other
            /\ first' = [first EXCEPT !.other = TRUE]
    /\ UNCHANGED <<lines, li, fi, pc, match, data, parsed_data, detected, call>>

NextRepeat == Rescan \/ ScanStep \/ Observe

SpecRepeat == Init /\ [][NextRepeat]_vars

\* C10: a later scan of a document returns the record its first scan
\* returned, whatever was scanned in between.
C10_ScansIndependent ==
    (pc = "returned" /\ first.kept /\ lines = first.lines) => Record = first.record

\* C10 witness: the kept document has no phone line, a document with a phone
\* line was scanned after it, and the kept document, scanned again, still
\* has no phone.
C10_Witness ==
    /\ pc = "returned"
    /\ first.kept /\ first.other
    /\ lines = first.lines
    /\ lines = <<SuffixOnly>>
    /\ getPhoneNumber = None

\* ------------------------------------------------------------------------
\* detect and parse called directly on one fragment instance
\* ------------------------------------------------------------------------
\* fragment.detect(line)
CallDetect(f, line) ==
    /\ call.frag = f
    /\ LET m == Detect(f, match[f], line)
       IN  /\ match' = [match EXCEPT ![f] = m]
           /\ call' = [op |-> "detect", frag |-> f, line |-> line,
                       ok |-> m.matched, exc |-> "", ret |-> None,
                       legal |-> FALSE, before |-> match[f]]
    /\ UNCHANGED <<lines, li, fi, pc, data, parsed_data, detected, first>>

\* fragment.parse(line)
CallParse(f, line) ==
    /\ call.frag = f
    /\ LET r == Parse(f, match[f], data[f])
       IN  /\ data' = [data EXCEPT ![f] = r.data]
           /\ call' = [op |-> "parse", frag |-> f, line |-> line,
                       ok |-> FALSE, exc |-> r.exc, ret |-> r.ret,
                       legal |-> (call.op = "detect" /\ call.ok /\ call.line = line),
                       before |-> match[f]]
    /\ UNCHANGED <<lines, li, fi, pc, match, parsed_data, detected, first>>

\* A new instance of the fragment f, given the line its caller will use
NewFragment(f, line) ==
    /\ pc = "idle" /\ lines = <<>> /\ li = 0 /\ fi = 0
    /\ match = NewMatch
    /\ data = NewData
    /\ parsed_data = DefaultParsedData
    /\ detected = {}
    /\ first = NoFirst
    /\ call = [NoCall EXCEPT !.op = "new", !.frag = f, !.line = line]

\* The lines a caller gives to an instance, in any order and any number of
\* times
CallerLines(f) ==
    CASE f = "name"  -> {<<"J", "i", "m", " ", "B", "o", "b">>, MikeSmith, <<"J", "i", "m", " ", "B", "o", "b", " ", "Y", "e", "s", " ", "S", "i", "r", "e", "e">>, <<"B", "o", "b", " ", "J", "i", "m">>, <<" ", "J", "i", "m", " ", "B", "o", "b">>}
      [] f = "email" -> {BobAtCo, <<"a", "l", "@", "m", "i", "t", ".", "e", "d", "u">>, <<"b", "o", "b", "@", "@", "c", "o", "m", "p", "a", "n", "y", ".", "c", "o", "m">>, <<"b", "o", "b", "@", "c", "o", "m", "p", "a", "n", "y", ".", "c", "o", "m", " ">>, <<" ", "b", "o", "b", "@", "c", "o", "m", "p", "a", "n", "y", ".", "c", "o", "m">>}
      [] f = "phone" -> {Phone123, Phone222, SuffixOnly, <<"1", "2", "3", "-", "4", "5", "6", "-", "7", "8", "9", "8", " ">>, <<" ", "(", "2", "2", "2", ")", " ", "9", "9", "9", "-", "8", "8", "8", "8">>}

InitFragment == \E f \in Datatypes : NewFragment(f, <<>>)

DetectAny == \E line \in CallerLines(call.frag) : CallDetect(call.frag, line)

ParseAny == \E line \in CallerLines(call.frag) : CallParse(call.frag, line)

NextFragment == DetectAny \/ ParseAny

SpecFragment == InitFragment /\ [][NextFragment]_vars

\* C2: detect(line) is truthy exactly when the line itself matches the
\* grammar, whatever was detected on the instance before.
C2_DetectIsStateless ==
    call.op = "detect" => (call.ok <=> GrammarMatch(call.frag, call.line))

\* C4: a parse that does not directly follow a successful detect of the same
\* line raises the illegal-use error (ValueError) and returns nothing.
C4_IllegalUse ==
    (call.op = "parse" /\ ~call.legal) => (call.exc = "ValueError" /\ call.ret = None)

\* C9: detect gives the same answer for a line and for the line with the
\* white space around it removed or with a space added before or after.
C9_DetectStrips ==
    call.op = "detect" =>
        \A other \in {Strip(call.line), <<" ">> \o call.line, call.line \o <<" ">>} :
            Detect(call.frag, call.before, other).matched = call.ok

\* ------------------------------------------------------------------------
\* detect and then parse of one line on a new instance
\* ------------------------------------------------------------------------
MaxWord == 2
MaxSpaces == 1
MaxTokens == 4

\* All texts of 1 to n characters over chars
Texts(chars, n) == UNION {[1..k -> chars] : k \in 1..n}

\* n spaces
RECURSIVE Spaces(_)
Spaces(n) == IF n = 0 THEN <<>> ELSE <<" ">> \o Spaces(n - 1)

\* The characters of s that are in chars
RECURSIVE Only(_, _)
Only(s, chars) ==
    IF s = <<>> THEN <<>>
    ELSE (IF Head(s) \in chars THEN <<Head(s)>> ELSE <<>>) \o Only(Tail(s), chars)

\* Email addresses of the documented grammar: a prefix of word characters
\* with at most one period inside it, "@", a domain, ".", a suffix.
SampleWords(n) == Texts({"a", "Z", "_"}, n)

DottedPrefixes ==
    {u \o <<".">> \o v : u \in SampleWords(MaxWord - 1), v \in SampleWords(MaxWord - 1)}

DocumentedPrefixes == SampleWords(MaxWord) \cup DottedPrefixes

Addresses(prefixes) ==
    {x \o <<"@">> \o d \o <<".">> \o e :
        x \in prefixes, d \in {<<"b">>, <<"Z", "7">>}, e \in {<<"c">>, <<"i", "o">>}}

DocumentedEmails == Addresses(DocumentedPrefixes)

\* ... and those whose prefix has at least two word characters
TwoWordCharEmails ==
    Addresses({x \in DocumentedPrefixes : Len(Only(x, Word)) >= 2})

InvalidEmails ==
    {<<"b", "o", "b", "@", "@", "c", "o", "m", "p", "a", "n", "y", ".", "c", "o", "m">>, <<"s", "t", "a", "c", "y", "@", "h", "a", "r", "v", "a", "r", "d">>, <<"s", "t", "a", "r", "t", "u", "p", ".", "i", "o">>, <<"a", ".", "@", "b", ".", "c">>, <<".", "a", "@", "b", ".", "c">>, <<"a", ".", ".", "b", "@", "b", ".", "c">>, <<"a", ".", "b", ".", "c", "@", "d", ".", "e">>, <<"a", "b", "@", "c", ".", "d", ".", "e">>}

\* Phone numbers of the documented grammar: label and colon, country code,
\* white space, area code with or without parentheses, hyphen or space,
\* exchange, hyphen, suffix; every part but the three digit groups optional.
CountryCodes == {<<>>, <<"+", "1">>, <<"+", "4", "4">>, <<"+", "1", "2", "3">>}

Numbers(labels) ==
    {lb \o cc \o Spaces(n) \o ar \o s1 \o <<"5", "5", "5">> \o s2 \o <<"1", "2", "3", "4">> :
        lb \in labels, cc \in CountryCodes, n \in 0..MaxSpaces,
        ar \in {<<"4", "1", "0">>, <<"(", "4", "1", "0", ")">>}, s1 \in {<<>>, <<"-">>, <<" ">>}, s2 \in {<<>>, <<"-">>}}

DocumentedPhones == Numbers({<<>>, <<"T", "e", "l", ":">>})

\* ... and those in which the label and colon are followed by one space
LabelSpacePhones == Numbers({<<>>, <<"T", "e", "l", ":", " ">>})

InvalidPhones == {SuffixOnly, <<"(", "2", "2", "2", ")", " ", "9", "9", "9", "8", "-", "8", "8", "8", "8">>, <<"+", "7", "8", "0", "5", "4", " ", "9", "8", "7", "-", "6", "5", "4", "-", "3", "2", "1", "1">>, <<"-", "-", "2", "2", "2", "-", "-", "-", "8", "8", "8", "-", "9", "9", "9", "9">>}

\* Name lines: one to MaxTokens tokens, one separator throughout
NameTokens == {<<"J", "i", "m">>, <<"B", "o", "b">>, <<"A", ".">>, <<"_", "7">>, <<"a", ".", "b">>}

RECURSIVE Join(_, _)
Join(toks, sep) ==
    IF Len(toks) = 1 THEN toks[1] ELSE toks[1] \o sep \o Join(Tail(toks), sep)

NameLines ==
    {Join(toks, sep) : toks \in Texts(NameTokens, MaxTokens), sep \in {<<" ">>, <<" ", "\t">>}}
    \cup {<<" ", "J", "i", "m", " ", "B", "o", "b">>, <<"J", "i", "m", " ", "B", "o", "b", " ">>}

FunctionLines(f) ==
    CASE f = "name"  -> NameLines
      [] f = "email" -> DocumentedEmails \cup InvalidEmails
      [] f = "phone" -> DocumentedPhones \cup LabelSpacePhones \cup InvalidPhones

InitFunction == \E f \in Datatypes : \E line \in FunctionLines(f) : NewFragment(f, line)

DetectLine == call.op = "new" /\ CallDetect(call.frag, call.line)

ParseLine == call.op = "detect" /\ CallParse(call.frag, call.line)

NextFunction == DetectLine \/ ParseLine

SpecFunction == InitFunction /\ [][NextFunction]_vars

RoundTrip(emails) ==
    (call.frag = "email" /\ call.line \in emails) =>
        /\ call.op = "detect" => call.ok
        /\ call.op = "parse" => (call.exc = "" /\ call.ret = call.line)

\* C5 as stated: every email of the documented grammar is detected and
\* parse gives it back unchanged.
C5_RoundTripDocumented == RoundTrip(DocumentedEmails)

\* C5 amended: every email of the documented grammar whose prefix has at
\* least two word characters is detected and parse gives it back unchanged.
C5_RoundTrip == RoundTrip(TwoWordCharEmails)

\* C5 witness: an address with a period in the prefix and an upper-case
\* letter came back from parse as it went in.
C5_Witness ==
    /\ call.op = "parse" /\ call.frag = "email"
    /\ call.line = <<"a", ".", "Z", "@", "Z", "7", ".", "i", "o">>
    /\ call.ret = call.line

DigitsOnly(phones) ==
    (call.frag = "phone" /\ call.line \in phones) =>
        /\ call.op = "detect" => call.ok
        /\ call.op = "parse" =>
              /\ call.exc = ""
              /\ call.ret = Only(call.line, Digit)
              /\ Len(call.ret) \in 10..13

\* C6 as stated: every phone line of the documented grammar is detected on
\* a new instance and parse gives its digits (country code, area code,
\* exchange, suffix) and nothing else.
C6_DigitsDocumented == DigitsOnly(DocumentedPhones)

\* C6 amended: the same for the grammar in which a label and colon, when
\* present, are followed by one space.
C6_Digits == DigitsOnly(LabelSpacePhones)

\* C6 witness: a line with label, country code, parentheses and hyphen
\* parsed to its twelve digits.
C6_Witness ==
    /\ call.op = "parse" /\ call.frag = "phone"
    /\ call.line = <<"T", "e", "l", ":", " ", "+", "4", "4", " ", "(", "4", "1", "0", ")", " ", "5", "5", "5", "-", "1", "2", "3", "4">>
    /\ call.ret = <<"4", "4", "4", "1", "0", "5", "5", "5", "1", "2", "3", "4">>

\* The tokens of a line: its maximal runs of characters that are not white space
RECURSIVE Tokens(_)
Tokens(s) ==
    LET t == LStrip(s)
        n == CHOOSE k \in 0..Len(t) :
                /\ \A j \in 1..k : t[j] \notin Space
                /\ k = Len(t) \/ t[k + 1] \in Space
    IN  IF t = <<>> THEN <<>>
        ELSE <<SubSeq(t, 1, n)>> \o Tokens(SubSeq(t, n + 1, Len(t)))

IsWord(t) == t # <<>> /\ \A j \in 1..Len(t) : t[j] \in Word

IsWordPeriod(t) == IsWord(t) \/ (Len(t) >= 2 /\ t[Len(t)] = "." /\ IsWord(SubSeq(t, 1, Len(t) - 1)))

\* period only on the middle token of three
DocumentedShape(toks) ==
    \/ Len(toks) = 2 /\ IsWord(toks[1]) /\ IsWord(toks[2])
    \/ Len(toks) = 3 /\ IsWord(toks[1]) /\ IsWordPeriod(toks[2]) /\ IsWord(toks[3])

\* period on the second token, be it the middle or the last one
SecondTokenShape(toks) ==
    \/ Len(toks) = 2 /\ IsWord(toks[1]) /\ IsWordPeriod(toks[2])
    \/ Len(toks) = 3 /\ IsWord(toks[1]) /\ IsWordPeriod(toks[2]) /\ IsWord(toks[3])

NameDetected(shapeOk) ==
    (call.frag = "name" /\ call.op = "detect" /\ Strip(call.line) = call.line) =>
        (call.ok <=> (shapeOk /\ Tokens(call.line)[1] \in CommonNames))

\* C7 as stated: a line without white space around it is detected as a name
\* exactly when it has two or three word tokens, a period allowed only at
\* the end of the middle token of three, and its first token is a common name.
C7_NameDocumented == NameDetected(DocumentedShape(Tokens(call.line)))

\* C7 amended: the period is allowed at the end of the second token, which
\* is the middle token of three or the last token of two.
C7_Name == NameDetected(SecondTokenShape(Tokens(call.line)))

\* C7 witness: a three-token line with a middle initial and a common first
\* name was detected.
C7_Witness ==
    /\ call.frag = "name" /\ call.op = "detect"
    /\ call.line = <<"J", "i", "m", " ", "A", ".", " ", "B", "o", "b">>
    /\ call.ok

====
